---- MODULE Spec2Model ----
(***************************************************************************)
(* Register map, configuration writes and readout decoding of the AstroPix  *)
(* driver.                                                                 *)
(*                                                                         *)
(*   Spec            core.asic.Asic           (src/core/asic.py)           *)
(*   SpecAstropix2   astropix.astropix2       (src/astropix.py)            *)
(*   SpecCodec       Asic.__int2nbit, BitArray(uint=..).uint               *)
(*   SpecDecode      core.decode.Decode       (src/core/decode.py)         *)
(*   SpecTelescope   gen_asic_vector of a telescope of several chips       *)
(*                                                                         *)
(* Python integers are unbounded; an integer >= 0 is modelled as the set   *)
(* of the positions of its 1 bits (bit 0 = least significant), so that the *)
(* 38-bit receiver words keep their real layout.  A dict is modelled as    *)
(* the sequence of its items in insertion order; the key f'col{i}' is the  *)
(* integer i.  A register entry [nbits, value] of the YAML file is the     *)
(* record [nbits |-> .., value |-> ..] (values[0] and values[1]).          *)
(***************************************************************************)
EXTENDS Integers, Sequences, FiniteSets, TLC

VARIABLES
    asic_config,   \* self.asic_config; <<>> is the empty dict / None before a load
    num_rows,      \* self._num_rows
    num_cols,      \* self._num_cols
    chipversion,   \* self._chipversion (0 stands for None)
    asic_start,    \* astropix2._asic_start
    inject,        \* astropix2 constructor argument: <<>> for None, else <<row, col>>
    raised,        \* exception the last call ended with, "none" when it returned
    written,       \* bit vectors the last call handed to the transport, in order
    logged,        \* levels of the records the last call logged
    value,         \* __int2nbit(value, nbits): the argument value
    nbits,         \* __int2nbit(value, nbits): the argument nbits
    bitarray,      \* what __int2nbit returned; <<>> before the call
    sent,          \* the frames and filler bytes the FPGA put into the buffer, in order
    readout,       \* hits_from_readoutstream: the caller's buffer
    bitorder,      \* hits_from_readoutstream: the argument reverse_bitorder
    pos,           \* hits_from_readoutstream: the scan index i
    hitlist,       \* hits_from_readoutstream: hitlist
    decoded,       \* the hit records the caller got from the decoder
    args,          \* the run script and its arguments inject, errormax, maxruns
    pc,            \* where the run script stands: idle, loop, finally, ended
    run_i,         \* run loop: the readout index i
    errors,        \* run loop: errors
    records,       \* run loop: one record per readout taken, as appended to the csv frame
    ending,        \* how the run loop was left
    hwcalls        \* the calls the run script made to the injector and the FPGA link

\* the configuration session, the codec call, the frame extraction
asicvars == <<asic_config, num_rows, num_cols, chipversion, asic_start, inject,
              raised, written, logged>>
codecvars == <<value, nbits, bitarray>>
decodevars == <<sent, readout, bitorder, pos, hitlist, decoded>>
runvars == <<args, pc, run_i, errors, records, ending, hwcalls>>

vars == <<asicvars, codecvars, decodevars, runvars>>

----------------------------------------------------------------------------
(* Bounds *)

\* Geometries loaded from YAML have fewer than MaxDim pixels (rows * cols).
MaxDim == 3

\* Row and column arguments of the calls: from one below 0 to one past the
\* configured count (n is the count; 35 before a file is loaded).
Args(n) == -1 .. (IF n < MaxDim THEN n ELSE MaxDim - 1)

Geometries == {g \in (1 .. MaxDim) \X (1 .. MaxDim) : g[1] * g[2] < MaxDim}

\* Declared widths of the register handed to __int2nbit: 1 .. MaxWidth.
MaxWidth == 6

\* A configuration file may declare up to MaxRows rows (the receiver word's
\* literals give bits 1 .. 35 to the rows).
MaxRows == 38

\* The run scripts are started with --maxruns up to MaxRuns (without it the
\* run is followed for MaxRuns + 1 readouts) and --errormax up to MaxErrormax.
MaxRuns == 3
MaxErrormax == 1

\* A telescope configuration file declares 2 .. MaxChips chips.
MaxChips == 3

\* A readout buffer holds at most MaxSeg pieces (a frame, a filler byte, a
\* cut-off frame).
MaxSeg == 4

----------------------------------------------------------------------------
(* Python values *)

\* 35, the geometry set by the constructor
InitDim == 35

\* 38, the number of binary digits of the receiver word literals
RecBits == 38

\* 0b001_11111_11111_11111_11111_11111_11111_11110
RecDefault == 1 .. 35
\* 0b000_00000_00000_00000_00000_00000_00000_00001
InjRowBit == {0}
\* 0b010_00000_00000_00000_00000_00000_00000_00000
InjColBit == {36}
\* 0b100_00000_00000_00000_00000_00000_00000_00000
AmpoutBit == {37}
\* 0b011_11111_11111_11111_11111_11111_11111_11111
AmpoutClear == 0 .. 36
\* 0b111_11111_11111_11111_11111_11111_11111_11110
InjRowClear == 1 .. 37
\* 0b101_11111_11111_11111_11111_11111_11111_11111
InjColClear == (0 .. 35) \cup {37}
\* the literal 2 of (2 << row)
Two == {1}

\* a | b
BitOr(a, b) == a \cup b
\* a & b, both >= 0
BitAnd(a, b) == a \cap b
\* a & ~b, a >= 0: ~b has every bit set that b has not
BitAndNot(a, b) == a \ b
\* a << n, n >= 0
Shl(a, n) == {b + n : b \in a}

\* dict: key in d
Has(d, k) == \E i \in DOMAIN d : d[i].key = k
Idx(d, k) == CHOOSE i \in DOMAIN d : d[i].key = k
\* dict: d[k]
Get(d, k) == d[Idx(d, k)].val
\* dict: d[k] = v
Put(d, k, v) ==
    IF Has(d, k)
    THEN [d EXCEPT ![Idx(d, k)].val = v]
    ELSE Append(d, [key |-> k, val |-> v])

\* outcome of a method body: the configuration it leaves and how it ended
Return(cfg) == [cfg |-> cfg, raised |-> "none"]
Raise(cfg, e) == [cfg |-> cfg, raised |-> e]

----------------------------------------------------------------------------
(* The YAML configuration file *)

\* config: the four groups in file order; one receiver entry per column
YamlRecconfig(cols) ==
    [i \in 1 .. cols |-> [key |-> i - 1, val |-> [nbits |-> RecBits, value |-> RecDefault]]]

YamlConfig(cols) ==
    << [key |-> "digitalconfig",
        val |-> << [key |-> "interrupt_pushpull", val |-> [nbits |-> 1, value |-> {0}]] >>],
       [key |-> "biasconfig",
        val |-> << [key |-> "DisHiDR", val |-> [nbits |-> 1, value |-> {}]] >>],
       [key |-> "idacs",
        val |-> << [key |-> "blres", val |-> [nbits |-> 6, value |-> {}]],
                   [key |-> "vn1", val |-> [nbits |-> 6, value |-> {2, 4}]] >>],
       [key |-> "recconfig", val |-> YamlRecconfig(cols)] >>

----------------------------------------------------------------------------
(* Serialization *)

\* a negative Python integer: the set of its bits holds the position -1
MinusOne == {-1}

\* BitArray(uint=value, length=length) accepts 0 <= value < 2**length,
\* length > 0, and raises CreationError (a ValueError) otherwise
Fits(val, length) == length > 0 /\ val \subseteq 0 .. length - 1

\* an encoding without leading zeros: as many bits as the value needs
BitArray_minimal(val, length) ==
    LET needed == IF val = {} THEN 1
                  ELSE 1 + CHOOSE m \in val : \A x \in val : x <= m
    IN  [i \in 1 .. needed |-> IF (needed - i) \in val THEN 1 ELSE 0]

\* BitArray(uint=value, length=length) of a value that fits: big-endian,
\* most significant bit first
BitArray(val, length) ==
    [i \in 1 .. length |-> IF (length - i) \in val THEN 1 ELSE 0]

\* the Python value None, which no BitArray is
None == <<-1>>

\* try: return BitArray(uint=value, length=nbits)
\* except ValueError: (the error is logged or printed) return None
int2nbit(val, n) ==
    IF Fits(val, n) THEN BitArray(val, n) ELSE None

\* what bitvector.append(None) does depends on the bitstring release that is
\* installed: it appends nothing (Bits(None) is the empty bitstring), or it
\* raises TypeError
AppendNone == {"nothing", "TypeError"}

\* bitvector.append(bs) where it returns
append(bitvector, bs) == IF bs = None THEN bitvector ELSE bitvector \o bs

\* for values in group.values(): bitvector.append(__int2nbit(values[1], values[0]))
RECURSIVE GroupBits(_)
GroupBits(group) ==
    IF group = <<>> THEN <<>>
    ELSE append(<<>>, int2nbit(Head(group).val.value, Head(group).val.nbits))
             \o GroupBits(Tail(group))

\* for key in self.asic_config: ...
RECURSIVE ConfigBits(_)
ConfigBits(cfg) ==
    IF cfg = <<>> THEN <<>>
    ELSE GroupBits(Head(cfg).val) \o ConfigBits(Tail(cfg))

\* every value of the configuration fits its width: no __int2nbit fails
AllFit(cfg) ==
    \A g \in DOMAIN cfg : \A e \in DOMAIN cfg[g].val :
        Fits(cfg[g].val[e].val.value, cfg[g].val[e].val.nbits)

\* bitvector.reverse()
Reverse(s) == [i \in 1 .. Len(s) |-> s[Len(s) + 1 - i]]

\* a serializer that leaves the reversal out
asic_vector_msb(cfg, msbfirst) == ConfigBits(cfg)

\* the vector gen_asic_vector makes when every append returns
asic_vector(cfg, msbfirst) ==
    IF msbfirst THEN ConfigBits(cfg) ELSE Reverse(ConfigBits(cfg))

\* single-chip branch of gen_asic_vector (and _construct_asic_vector): the
\* ways the call can end
gen_asic_vector(cfg, msbfirst) ==
    IF AllFit(cfg)
    THEN {[raised |-> "none", bits |-> asic_vector(cfg, msbfirst)]}
    ELSE {[raised |-> IF how = "nothing" THEN "none" ELSE "TypeError",
           bits |-> IF how = "nothing" THEN asic_vector(cfg, msbfirst) ELSE <<>>]
              : how \in AppendNone}

\* modules.mightypix1_asic: the appends to bitvector2 (receiver = TRUE, the
\* group 'recconfig') or to bitvector (every other group)
RECURSIVE mightypix1_bits(_, _)
mightypix1_bits(cfg, receiver) ==
    IF cfg = <<>> THEN <<>>
    ELSE (IF (Head(cfg).key = "recconfig") = receiver
          THEN GroupBits(Head(cfg).val) ELSE <<>>)
             \o mightypix1_bits(Tail(cfg), receiver)

\* modules.mightypix1_asic.Asic.gen_asic_vector, single-chip branch: both
\* vectors are built and reversed; wload returns bitvector, else wload2
\* returns bitvector2, else the method falls off its end and returns None
mightypix1_gen_asic_vector(cfg, msbfirst, wload, wload2) ==
    LET bitvector  == IF msbfirst THEN mightypix1_bits(cfg, FALSE)
                      ELSE Reverse(mightypix1_bits(cfg, FALSE))
        bitvector2 == IF msbfirst THEN mightypix1_bits(cfg, TRUE)
                      ELSE Reverse(mightypix1_bits(cfg, TRUE))
        returned   == IF wload THEN bitvector
                      ELSE IF wload2 THEN bitvector2
                      ELSE None
    IN  IF AllFit(cfg)
        THEN {[raised |-> "none", bits |-> returned]}
        ELSE {[raised |-> IF how = "nothing" THEN "none" ELSE "TypeError",
               bits |-> IF how = "nothing" THEN returned ELSE <<>>]
                  : how \in AppendNone}

\* BitArray(uint=0, length=245)
DummyLen == 245
DummyBits == [i \in 1 .. DummyLen |-> 0]

----------------------------------------------------------------------------
(* Receiver words *)

\* how reading self.asic_config['recconfig'].get(f'col{k}', <int>)[1] ends:
\* no 'recconfig' group is a KeyError, a missing column yields the int
\* default, and subscripting that int is a TypeError
RecGetRaises(cfg, k) ==
    IF ~Has(cfg, "recconfig") THEN "KeyError"
    ELSE IF ~Has(Get(cfg, "recconfig"), k) THEN "TypeError"
    ELSE "none"

\* how reading self.asic_config['recconfig'][f'col{k}'][1] ends
RecItemRaises(cfg, k) ==
    IF ~Has(cfg, "recconfig") \/ ~Has(Get(cfg, "recconfig"), k) THEN "KeyError"
    ELSE "none"

\* self.asic_config['recconfig'][f'col{k}'][1]
RecValue(cfg, k) == Get(Get(cfg, "recconfig"), k).value

\* an assignment through one list that every receiver entry shares
RecAssign_shared(cfg, k, v) ==
    LET rec == Get(cfg, "recconfig")
    IN  Put(cfg, "recconfig",
            [i \in DOMAIN rec |-> [rec[i] EXCEPT !.val = [@ EXCEPT !.value = v]]])

\* self.asic_config['recconfig'][f'col{k}'][1] = v
RecAssign(cfg, k, v) ==
    LET rec == Get(cfg, "recconfig")
    IN  Put(cfg, "recconfig", Put(rec, k, [Get(rec, k) EXCEPT !.value = v]))


\* keyword argument of a call: left out, inplace=True or inplace=False
Keywords == {"default", "True", "False"}

\* the keyword arguments the state machines pass: inplace=True does what
\* leaving the default True does, and is a TypeError like inplace=False
\* where the method has no such parameter
Passed == {"default", "False"}

\* what a call leaves behind
Outcome(cfg, exc, writes, levels) ==
    [cfg |-> cfg, raised |-> exc, written |-> writes, logged |-> levels]

----------------------------------------------------------------------------
(* Method bodies up to the trailing asic_update *)

enable_inj_row_body(cfg, rows, row) ==
    IF row < rows
    THEN IF RecGetRaises(cfg, row) # "none" THEN Raise(cfg, RecGetRaises(cfg, row))
         ELSE Return(RecAssign(cfg, row, BitOr(RecValue(cfg, row), InjRowBit)))
    ELSE Return(cfg)

enable_inj_col_body(cfg, cols, col) ==
    IF col < cols
    THEN IF RecGetRaises(cfg, col) # "none" THEN Raise(cfg, RecGetRaises(cfg, col))
         ELSE Return(RecAssign(cfg, col, BitOr(RecValue(cfg, col), InjColBit)))
    ELSE Return(cfg)

\* for i in range(self.num_cols): the body addresses f'col{col}' on every pass
RECURSIVE ampout_loop(_, _, _, _)
ampout_loop(cfg, col, i, cols) ==
    IF i >= cols THEN cfg
    ELSE ampout_loop(RecAssign(cfg, col, BitAnd(RecValue(cfg, col), AmpoutClear)),
                     col, i + 1, cols)

enable_ampout_col_body(cfg, cols, col) ==
    IF RecItemRaises(cfg, col) # "none" THEN Raise(cfg, "KeyError")
    ELSE LET cleared == ampout_loop(cfg, col, 0, cols)
         IN  Return(RecAssign(cleared, col, BitOr(RecValue(cleared, col), AmpoutBit)))

\* enable_pixel with the mask (1 << row): clears the bit below the pixel's
enable_pixel_body_shift1(cfg, rows, cols, col, row) ==
    IF row < rows /\ col < cols
    THEN IF RecGetRaises(cfg, col) # "none" THEN Raise(cfg, RecGetRaises(cfg, col))
         ELSE IF row < 0 THEN Raise(cfg, "ValueError")
         ELSE Return(RecAssign(cfg, col, BitAndNot(RecValue(cfg, col), Shl({0}, row))))
    ELSE Return(cfg)

\* enable_pixel with ^ (2 << row): toggles the pixel's bit
enable_pixel_body_toggle(cfg, rows, cols, col, row) ==
    IF row < rows /\ col < cols
    THEN IF RecGetRaises(cfg, col) # "none" THEN Raise(cfg, RecGetRaises(cfg, col))
         ELSE IF row < 0 THEN Raise(cfg, "ValueError")
         ELSE Return(RecAssign(cfg, col,
                  BitOr(BitAndNot(RecValue(cfg, col), Shl(Two, row)),
                        BitAndNot(Shl(Two, row), RecValue(cfg, col)))))
    ELSE Return(cfg)

\* 2 << row raises ValueError for a negative shift count
enable_pixel_body(cfg, rows, cols, col, row) ==
    IF row < rows /\ col < cols
    THEN IF RecGetRaises(cfg, col) # "none" THEN Raise(cfg, RecGetRaises(cfg, col))
         ELSE IF row < 0 THEN Raise(cfg, "ValueError")
         ELSE Return(RecAssign(cfg, col, BitAndNot(RecValue(cfg, col), Shl(Two, row))))
    ELSE Return(cfg)

\* disable_pixel with the mask (1 << row)
disable_pixel_body_shift1(cfg, rows, cols, col, row) ==
    IF row < rows /\ col < cols
    THEN IF RecGetRaises(cfg, col) # "none" THEN Raise(cfg, RecGetRaises(cfg, col))
         ELSE IF row < 0 THEN Raise(cfg, "ValueError")
         ELSE Return(RecAssign(cfg, col, BitOr(RecValue(cfg, col), Shl({0}, row))))
    ELSE Return(cfg)

disable_pixel_body(cfg, rows, cols, col, row) ==
    IF row < rows /\ col < cols
    THEN IF RecGetRaises(cfg, col) # "none" THEN Raise(cfg, RecGetRaises(cfg, col))
         ELSE IF row < 0 THEN Raise(cfg, "ValueError")
         ELSE Return(RecAssign(cfg, col, BitOr(RecValue(cfg, col), Shl(Two, row))))
    ELSE Return(cfg)

disable_inj_row_body(cfg, rows, row) ==
    IF row < rows
    THEN IF RecGetRaises(cfg, row) # "none" THEN Raise(cfg, RecGetRaises(cfg, row))
         ELSE Return(RecAssign(cfg, row, BitAnd(RecValue(cfg, row), InjRowClear)))
    ELSE Return(cfg)

disable_inj_col_body(cfg, cols, col) ==
    IF col < cols
    THEN IF RecGetRaises(cfg, col) # "none" THEN Raise(cfg, RecGetRaises(cfg, col))
         ELSE Return(RecAssign(cfg, col, BitAnd(RecValue(cfg, col), InjColClear)))
    ELSE Return(cfg)

\* reset_recconfig that stops one key short of the end
reset_recconfig_body_short(cfg) ==
    IF ~Has(cfg, "recconfig") THEN Raise(cfg, "KeyError")
    ELSE LET rec == Get(cfg, "recconfig")
         IN  Return(Put(cfg, "recconfig",
                        [i \in DOMAIN rec |->
                            IF i < Len(rec) THEN [rec[i] EXCEPT !.val.value = RecDefault]
                            ELSE rec[i]]))

\* for key in self.asic_config['recconfig']: ...[key][1] = <default word>
reset_recconfig_body(cfg) ==
    IF ~Has(cfg, "recconfig") THEN Raise(cfg, "KeyError")
    ELSE LET rec == Get(cfg, "recconfig")
         IN  Return(Put(cfg, "recconfig",
                        [i \in DOMAIN rec |-> [rec[i] EXCEPT !.val.value = RecDefault]]))

----------------------------------------------------------------------------
(* core.asic.Asic: the ways each call can end from the current state *)

\* Asic.asic_update() on the configuration cfg: 245 dummy bits go out first
\* on a version 1 chip, then the vector; __int2nbit logs an error for every
\* value that does not fit; "Wrote configbits successfully" is logged last
asic_update_outcomes(cfg, version) ==
    {Outcome(cfg, g.raised,
             (IF version = 1 THEN <<DummyBits>> ELSE <<>>)
                 \o (IF g.raised = "none" THEN <<g.bits>> ELSE <<>>),
             (IF AllFit(cfg) THEN {} ELSE {"error"})
                 \cup (IF g.raised = "none" THEN {"info"} ELSE {}))
        : g \in gen_asic_vector(cfg, FALSE)}

asic_update_call == asic_update_outcomes(asic_config, chipversion)

\* a trailing update that writes the vector made before the mutation
Updated_stale(r, kw, version) ==
    IF r.raised = "none" /\ kw # "False"
    THEN {[o EXCEPT !.cfg = r.cfg] : o \in asic_update_outcomes(asic_config, version)}
    ELSE {Outcome(r.cfg, r.raised, <<>>, {})}

\* a method with the parameter inplace: bool = True ends with
\* "if inplace: self.asic_update()" unless its body raised
Updated(r, kw, version) ==
    IF r.raised = "none" /\ kw # "False"
    THEN asic_update_outcomes(r.cfg, version)
    ELSE {Outcome(r.cfg, r.raised, <<>>, {})}

\* a method without the parameter: passing inplace is a TypeError at the
\* call, the body does not run; otherwise the body runs and nothing is written
Staged(cfg, r, kw) ==
    IF kw = "default"
    THEN {Outcome(r.cfg, r.raised, <<>>, {})}
    ELSE {Outcome(cfg, "TypeError", <<>>, {})}

enable_inj_row_call(row, kw) ==
    Updated(enable_inj_row_body(asic_config, num_rows, row), kw, chipversion)

enable_inj_col_call(col, kw) ==
    Updated(enable_inj_col_body(asic_config, num_cols, col), kw, chipversion)

enable_ampout_col_call(col, kw) ==
    Updated(enable_ampout_col_body(asic_config, num_cols, col), kw, chipversion)

enable_pixel_call(col, row, kw) ==
    Updated(enable_pixel_body(asic_config, num_rows, num_cols, col, row), kw, chipversion)

disable_pixel_call(col, row, kw) ==
    Updated(disable_pixel_body(asic_config, num_rows, num_cols, col, row), kw, chipversion)

disable_inj_row_call(row, kw) ==
    Staged(asic_config, disable_inj_row_body(asic_config, num_rows, row), kw)

disable_inj_col_call(col, kw) ==
    Staged(asic_config, disable_inj_col_body(asic_config, num_cols, col), kw)

reset_recconfig_call(kw) ==
    Staged(asic_config, reset_recconfig_body(asic_config), kw)

\* Asic.get_pixel(col, row): False when bit row + 1 of the column's word is
\* set, True when it is clear; a row past the geometry is logged and None is
\* returned; .get() of a missing column is None, whose subscript is a
\* TypeError; 1 << (row + 1) raises ValueError for a negative shift count
get_pixel_call(cfg, rows, col, row) ==
    IF row < rows
    THEN IF ~Has(cfg, "recconfig") THEN [raised |-> "KeyError", returned |-> "nothing"]
         ELSE IF ~Has(Get(cfg, "recconfig"), col)
         THEN [raised |-> "TypeError", returned |-> "nothing"]
         ELSE IF row + 1 < 0 THEN [raised |-> "ValueError", returned |-> "nothing"]
         ELSE [raised |-> "none",
               returned |-> IF (row + 1) \in RecValue(cfg, col) THEN "False" ELSE "True"]
    ELSE [raised |-> "none", returned |-> "None"]

----------------------------------------------------------------------------
(* core.asic.Asic: the state machine *)

\* no __int2nbit call has been made
IdleCodec ==
    /\ value = 0
    /\ nbits = 0
    /\ bitarray = <<>>

\* no run script has been started
IdleRun ==
    /\ args = <<>>
    /\ pc = "idle"
    /\ run_i = 0
    /\ errors = 0
    /\ records = <<>>
    /\ ending = "none"
    /\ hwcalls = <<>>

\* no readout has been taken
IdleDecode ==
    /\ sent = <<>>
    /\ readout = <<>>
    /\ bitorder = TRUE
    /\ pos = 0
    /\ hitlist = <<>>
    /\ decoded = <<>>

Init ==
    /\ asic_config = <<>>
    /\ num_rows = InitDim
    /\ num_cols = InitDim
    /\ chipversion = 0
    /\ asic_start = FALSE
    /\ inject = <<>>
    /\ raised = "none"
    /\ written = <<>>
    /\ logged = {}
    /\ IdleCodec
    /\ IdleRun
    /\ IdleDecode

\* the state a call leaves
Apply(o) ==
    /\ asic_config' = o.cfg
    /\ raised' = o.raised
    /\ written' = o.written
    /\ logged' = o.logged
    /\ UNCHANGED <<num_rows, num_cols, chipversion, asic_start, inject, codecvars, runvars, decodevars>>

\* Asic.load_conf_from_yaml of a single-chip file: version, geometry and
\* config of the file; the telescope section is optional
load_conf_from_yaml(version, telescope, rows, cols) ==
    /\ chipversion' = version
    /\ num_cols' = cols
    /\ num_rows' = rows
    /\ asic_config' = YamlConfig(cols)
    /\ raised' = "none"
    /\ written' = <<>>
    /\ logged' = IF telescope THEN {"info"} ELSE {"info", "warning"}
    /\ UNCHANGED <<asic_start, inject, codecvars, runvars, decodevars>>

enable_inj_row(row, kw) == \E o \in enable_inj_row_call(row, kw) : Apply(o)

enable_inj_col(col, kw) == \E o \in enable_inj_col_call(col, kw) : Apply(o)

enable_ampout_col(col, kw) == \E o \in enable_ampout_col_call(col, kw) : Apply(o)

enable_pixel(col, row, kw) == \E o \in enable_pixel_call(col, row, kw) : Apply(o)

disable_pixel(col, row, kw) == \E o \in disable_pixel_call(col, row, kw) : Apply(o)

disable_inj_row(row, kw) == \E o \in disable_inj_row_call(row, kw) : Apply(o)

disable_inj_col(col, kw) == \E o \in disable_inj_col_call(col, kw) : Apply(o)

reset_recconfig(kw) == \E o \in reset_recconfig_call(kw) : Apply(o)

asic_update == \E o \in asic_update_call : Apply(o)

\* the arguments tried in the current state
Rows == Args(num_rows)
Cols == Args(num_cols)

Next ==
    \/ \E g \in Geometries, v \in {1, 2}, t \in BOOLEAN :
           load_conf_from_yaml(v, t, g[1], g[2])
    \/ \E row \in Rows, kw \in Passed : enable_inj_row(row, kw)
    \/ \E col \in Cols, kw \in Passed : enable_inj_col(col, kw)
    \/ \E col \in Cols, kw \in Passed : enable_ampout_col(col, kw)
    \/ \E col \in Cols, row \in Rows, kw \in Passed : enable_pixel(col, row, kw)
    \/ \E col \in Cols, row \in Rows, kw \in Passed : disable_pixel(col, row, kw)
    \/ \E row \in Rows, kw \in Passed : disable_inj_row(row, kw)
    \/ \E col \in Cols, kw \in Passed : disable_inj_col(col, kw)
    \/ \E kw \in Passed : reset_recconfig(kw)
    \/ asic_update

Spec == Init /\ [][Next]_vars

----------------------------------------------------------------------------
(* core.asic.Asic on a file that declares more rows than the word has bits *)

\* geometry of the file: load_conf_from_yaml takes rows and cols as they
\* stand in the file, whatever their size
TallGeometries == {<<rows, 1>> : rows \in 36 .. MaxRows}

\* the topmost rows: row arguments in bounds for some of the geometries
TallRows == 33 .. MaxRows - 1

NextTall ==
    \/ \E g \in TallGeometries, v \in {1, 2} : load_conf_from_yaml(v, FALSE, g[1], g[2])
    \/ \E row \in TallRows, kw \in Passed : enable_pixel(0, row, kw)
    \/ \E row \in TallRows, kw \in Passed : disable_pixel(0, row, kw)
    \/ asic_update

SpecTall == Init /\ [][NextTall]_vars

----------------------------------------------------------------------------
(* A telescope: several chips configured through one file *)

\* the key f'config_{chip}'
ConfigKey(chip) ==
    CASE chip = 0 -> "config_0"
      [] chip = 1 -> "config_1"
      [] chip = 2 -> "config_2"
      [] chip = 3 -> "config_3"
      [] OTHER    -> "config_4"

\* a chip's section of the file: one DAC of 2 bits and one receiver word of
\* 3 bits, every value within its width
ChipConfig(dac, word) ==
    << [key |-> "idacs",
        val |-> << [key |-> "blres", val |-> [nbits |-> 2, value |-> dac]] >>],
       [key |-> "recconfig",
        val |-> << [key |-> 0, val |-> [nbits |-> 3, value |-> word]] >>] >>

ChipConfigs == {ChipConfig(dac, word) : dac \in {{}, {0}}, word \in {{}, {0}, {1}, {0, 1}}}

TelescopeFiles == UNION {[1 .. n -> ChipConfigs] : n \in 2 .. MaxChips}

\* self.num_chips after the one load of a telescope file into the empty
\* dict of the constructor: one key config_<chip> per chip
num_chips == Len(asic_config)

\* gen_asic_vector, branch num_chips > 1, from chip `chip` down to chip 0:
\* the registers of the chip are appended to bitvector, and
\* "if not msbfirst: bitvector.reverse()" inside the loop over the chips
\* reverses all of bitvector
RECURSIVE telescope_loop(_, _, _, _)
telescope_loop(cfg, chip, bitvector, msbfirst) ==
    IF chip < 0 THEN bitvector
    ELSE LET appended == bitvector \o ConfigBits(Get(cfg, ConfigKey(chip)))
         IN  telescope_loop(cfg, chip - 1,
                            IF msbfirst THEN appended ELSE Reverse(appended),
                            msbfirst)

\* core.asic.Asic.gen_asic_vector(msbfirst) of a telescope of chips chips
telescope_vector(cfg, chips, msbfirst) ==
    telescope_loop(cfg, chips - 1, <<>>, msbfirst)

\* modules.mightypix1_asic, branch num_chips > 1: the same loop run on
\* bitvector (receiver = FALSE) and on bitvector2 (receiver = TRUE)
RECURSIVE mightypix1_telescope_loop(_, _, _, _, _)
mightypix1_telescope_loop(cfg, chip, bitvector, msbfirst, receiver) ==
    IF chip < 0 THEN bitvector
    ELSE LET appended == bitvector \o mightypix1_bits(Get(cfg, ConfigKey(chip)), receiver)
         IN  mightypix1_telescope_loop(cfg, chip - 1,
                                       IF msbfirst THEN appended ELSE Reverse(appended),
                                       msbfirst, receiver)

\* modules.mightypix1_asic.Asic.gen_asic_vector(msbfirst, wload, wload2) of
\* a telescope: wload returns bitvector, else wload2 returns bitvector2
mightypix1_telescope_vector(cfg, chips, msbfirst, wload, wload2) ==
    IF wload THEN mightypix1_telescope_loop(cfg, chips - 1, <<>>, msbfirst, FALSE)
    ELSE IF wload2 THEN mightypix1_telescope_loop(cfg, chips - 1, <<>>, msbfirst, TRUE)
    ELSE None

\* Asic.load_conf_from_yaml of a telescope file, on a new object
load_telescope_from_yaml(version, file) ==
    /\ asic_config = <<>>
    /\ chipversion' = version
    /\ num_cols' = 1
    /\ num_rows' = 1
    /\ asic_config' = [k \in DOMAIN file |-> [key |-> ConfigKey(k - 1), val |-> file[k]]]
    /\ raised' = "none"
    /\ written' = <<>>
    /\ logged' = {"info"}
    /\ UNCHANGED <<asic_start, inject, codecvars, runvars, decodevars>>

\* core.asic.Asic.asic_update of the telescope
telescope_asic_update ==
    /\ asic_config # <<>>
    /\ written' = (IF chipversion = 1 THEN <<DummyBits>> ELSE <<>>)
                       \o <<telescope_vector(asic_config, num_chips, FALSE)>>
    /\ raised' = "none"
    /\ logged' = {"info"}
    /\ UNCHANGED <<asic_config, num_rows, num_cols, chipversion, asic_start, inject,
                   codecvars, runvars, decodevars>>

\* modules.mightypix1_asic.Asic.update_asic(wload, wload2) of the telescope:
\* update(True, False) if wload, then update(False, True) if wload2
mightypix1_telescope_update_asic(wload, wload2) ==
    /\ asic_config # <<>>
    /\ written' =
           (IF wload
            THEN <<mightypix1_telescope_vector(asic_config, num_chips, FALSE, TRUE, FALSE)>>
            ELSE <<>>)
           \o (IF wload2
               THEN <<mightypix1_telescope_vector(asic_config, num_chips, FALSE, FALSE, TRUE)>>
               ELSE <<>>)
    /\ raised' = "none"
    /\ UNCHANGED <<asic_config, num_rows, num_cols, chipversion, asic_start, inject,
                   logged, codecvars, runvars, decodevars>>

NextTelescope ==
    \/ \E v \in {1, 2}, file \in TelescopeFiles : load_telescope_from_yaml(v, file)
    \/ telescope_asic_update
    \/ \E wload \in BOOLEAN, wload2 \in BOOLEAN :
           mightypix1_telescope_update_asic(wload, wload2)

SpecTelescope == Init /\ [][NextTelescope]_vars

----------------------------------------------------------------------------
(* astropix.astropix2: what each call does to the current state *)

\* self.asic_config is None until a file is loaded: where the shared method
\* body subscripts it, None raises TypeError instead of the dict's KeyError
OnNone(cfg, r) ==
    IF cfg = <<>> /\ r.raised # "none" THEN Raise(cfg, "TypeError") ELSE r

\* astropix2.asic_update(): chip_reset, then one write of
\* _construct_asic_vector(); iterating None is a TypeError; __int2nbit
\* prints the allowed values where a value does not fit
astropix2_asic_update_outcome(cfg) ==
    IF cfg = <<>>
    THEN {Outcome(cfg, "TypeError", <<>>, {})}
    ELSE {Outcome(cfg, g.raised,
                  IF g.raised = "none" THEN <<g.bits>> ELSE <<>>,
                  IF g.raised = "none" THEN {"info"} ELSE {})
             : g \in gen_asic_vector(cfg, FALSE)}

astropix2_Updated(r, kw) ==
    IF r.raised = "none" /\ kw # "False"
    THEN astropix2_asic_update_outcome(r.cfg)
    ELSE {Outcome(r.cfg, r.raised, <<>>, {})}

astropix2_enable_inj_row_call(row, kw) ==
    astropix2_Updated(
        OnNone(asic_config, enable_inj_row_body(asic_config, num_rows, row)), kw)

astropix2_enable_inj_col_call(col, kw) ==
    astropix2_Updated(
        OnNone(asic_config, enable_inj_col_body(asic_config, num_cols, col)), kw)

astropix2_enable_ampout_col_call(col, kw) ==
    astropix2_Updated(
        OnNone(asic_config, enable_ampout_col_body(asic_config, num_cols, col)), kw)

astropix2_enable_pixel_call(col, row, kw) ==
    astropix2_Updated(
        OnNone(asic_config,
               enable_pixel_body(asic_config, num_rows, num_cols, col, row)), kw)

astropix2_disable_pixel_call(col, row, kw) ==
    astropix2_Updated(
        OnNone(asic_config,
               disable_pixel_body(asic_config, num_rows, num_cols, col, row)), kw)

\* astropix2.disable_inj_row / disable_inj_col read and assign self.recconfig,
\* not self.asic_config['recconfig'].  No statement of the class that runs
\* assigns self.recconfig (_mask_from_string and _make_blank_mask are called
\* only inside the string literal of asic_init), so the read raises
\* AttributeError whenever the guard lets the call through.
astropix2_disable_inj_row_body(cfg, rows, row) ==
    IF row < rows THEN Raise(cfg, "AttributeError") ELSE Return(cfg)

astropix2_disable_inj_col_body(cfg, cols, col) ==
    IF col < cols THEN Raise(cfg, "AttributeError") ELSE Return(cfg)

astropix2_disable_inj_row_call(row, kw) ==
    Staged(asic_config, astropix2_disable_inj_row_body(asic_config, num_rows, row), kw)

astropix2_disable_inj_col_call(col, kw) ==
    Staged(asic_config, astropix2_disable_inj_col_body(asic_config, num_cols, col), kw)

astropix2_reset_recconfig_call(kw) ==
    Staged(asic_config, OnNone(asic_config, reset_recconfig_body(asic_config)), kw)

\* astropix2.get_pixel(col, row) reads self.recconfig, which no statement
\* that runs assigns: AttributeError when the guard lets the call through,
\* else the method falls off its end and returns None
astropix2_get_pixel_call(rows, col, row) ==
    IF row < rows
    THEN [raised |-> "AttributeError", returned |-> "nothing"]
    ELSE [raised |-> "none", returned |-> "None"]

\* astropix2.asic_init(yaml, bias_setup/dac_setup, analog_col).
\*   yaml    <<>> for None (open(None) fails, the error is logged and the
\*           configuration stays what it was), else <<rows, cols>> of the file
\*   setup   a bias_setup or dac_setup dict was passed: self.biasconfig and
\*           self.dacconfig do not exist
\*   analog  <<>> for None, else <<analog_col>>
asic_init_geometry(yaml, rows, cols) ==
    IF yaml = <<>> THEN <<rows, cols>> ELSE yaml

asic_init_call(yaml, setup, analog) ==
    LET geo  == asic_init_geometry(yaml, num_rows, num_cols)
        cfg0 == IF yaml = <<>> THEN asic_config ELSE YamlConfig(geo[2])
        lvl  == IF yaml = <<>> THEN {"error"} ELSE {"info"}
        a    == IF analog # <<>> /\ analog[1] <= geo[2]
                THEN OnNone(cfg0, enable_ampout_col_body(cfg0, geo[2], analog[1]))
                ELSE Return(cfg0)
        c    == IF inject # <<>> /\ a.raised = "none"
                THEN OnNone(a.cfg, enable_inj_col_body(a.cfg, geo[2], inject[2]))
                ELSE a
        r    == IF inject # <<>> /\ c.raised = "none"
                THEN OnNone(c.cfg, enable_inj_row_body(c.cfg, geo[1], inject[1]))
                ELSE c
    IN  IF setup THEN {Outcome(cfg0, "AttributeError", <<>>, lvl)}
        ELSE IF r.raised # "none" THEN {Outcome(r.cfg, r.raised, <<>>, lvl \cup {"info"})}
        ELSE {Outcome(u.cfg, u.raised, u.written, lvl \cup {"info"})
                 : u \in astropix2_asic_update_outcome(r.cfg)}

----------------------------------------------------------------------------
(* astropix.astropix2: the state machine *)

\* the attributes the constructor and asic_init give an astropix2 object
\* that the configuration methods read (the class defines no properties)
Attributes == {"_asic_start", "_num_rows", "_num_cols", "asic_config", "nexys"}

\* bias_cfg and dac_cfg of update_asic_config: None (<<>>) or a dict of
\* register name -> entry; DisHiDR and vn1 are registers of the file,
\* nosuch is not
Overrides ==
    { <<>>,
      << [key |-> "DisHiDR", val |-> [nbits |-> 1, value |-> {0}]] >>,
      << [key |-> "vn1", val |-> [nbits |-> 6, value |-> {0, 1}]] >>,
      << [key |-> "nosuch", val |-> [nbits |-> 1, value |-> {0}]] >> }

\* d.update(other)
RECURSIVE DictUpdate(_, _)
DictUpdate(d, other) ==
    IF other = <<>> THEN d
    ELSE DictUpdate(Put(d, Head(other).key, Head(other).val), Tail(other))

\* astropix2.update_asic_config(bias_cfg, dac_cfg) with maskstr left None:
\* the first statement reads self.asic_start, an attribute no astropix2
\* object has (the flag is self._asic_start), so the call ends there with
\* AttributeError; past it the dicts would be updated, the "nothing to do"
\* branch taken and None returned without a write
update_asic_config_call(bias_cfg, dac_cfg) ==
    IF "asic_start" \notin Attributes
    THEN {Outcome(asic_config, "AttributeError", <<>>, {})}
    ELSE IF ~asic_start
    THEN {Outcome(asic_config, "RuntimeError", <<>>, {})}
    ELSE LET biased == IF bias_cfg = <<>> THEN asic_config
                       ELSE Put(asic_config, "biasconfig",
                                DictUpdate(Get(asic_config, "biasconfig"), bias_cfg))
             dacs   == IF dac_cfg = <<>> THEN biased
                       ELSE Put(biased, "idacs", DictUpdate(Get(biased, "idacs"), dac_cfg))
         IN  {Outcome(dacs, "none", <<>>, {"info"})}

\* inject argument of the constructor: None or (row, col)
InjectArgs == {<<>>, <<1, 0>>}

InitAstropix2 ==
    /\ asic_config = <<>>
    /\ num_rows = InitDim
    /\ num_cols = InitDim
    /\ chipversion = 0
    /\ asic_start = FALSE
    /\ inject \in InjectArgs
    /\ raised = "none"
    /\ written = <<>>
    /\ logged = {}
    /\ IdleCodec
    /\ IdleRun
    /\ IdleDecode

\* astropix2.load_conf_from_yaml(filename): config and geometry of the file
astropix2_load_conf_from_yaml(rows, cols) ==
    /\ asic_config' = YamlConfig(cols)
    /\ num_cols' = cols
    /\ num_rows' = rows
    /\ raised' = "none"
    /\ written' = <<>>
    /\ logged' = {"info"}
    /\ UNCHANGED <<chipversion, asic_start, inject, codecvars, runvars, decodevars>>

asic_init(yaml, setup, analog) ==
    \E o \in asic_init_call(yaml, setup, analog) :
        /\ asic_start' = TRUE
        /\ num_rows' = asic_init_geometry(yaml, num_rows, num_cols)[1]
        /\ num_cols' = asic_init_geometry(yaml, num_rows, num_cols)[2]
        /\ asic_config' = o.cfg
        /\ raised' = o.raised
        /\ written' = o.written
        /\ logged' = o.logged
        /\ UNCHANGED <<chipversion, inject, codecvars, runvars, decodevars>>

astropix2_asic_update == \E o \in astropix2_asic_update_outcome(asic_config) : Apply(o)

update_asic_config(bias_cfg, dac_cfg) ==
    \E o \in update_asic_config_call(bias_cfg, dac_cfg) : Apply(o)

astropix2_enable_inj_row(row, kw) == \E o \in astropix2_enable_inj_row_call(row, kw) : Apply(o)

astropix2_enable_inj_col(col, kw) == \E o \in astropix2_enable_inj_col_call(col, kw) : Apply(o)

astropix2_enable_ampout_col(col, kw) == \E o \in astropix2_enable_ampout_col_call(col, kw) : Apply(o)

astropix2_enable_pixel(col, row, kw) == \E o \in astropix2_enable_pixel_call(col, row, kw) : Apply(o)

astropix2_disable_pixel(col, row, kw) == \E o \in astropix2_disable_pixel_call(col, row, kw) : Apply(o)

astropix2_disable_inj_row(row, kw) == \E o \in astropix2_disable_inj_row_call(row, kw) : Apply(o)

astropix2_disable_inj_col(col, kw) == \E o \in astropix2_disable_inj_col_call(col, kw) : Apply(o)

astropix2_reset_recconfig(kw) == \E o \in astropix2_reset_recconfig_call(kw) : Apply(o)

NextAstropix2 ==
    \/ \E g \in Geometries : astropix2_load_conf_from_yaml(g[1], g[2])
    \/ \E yaml \in {<<>>} \cup Geometries, setup \in BOOLEAN,
          analog \in {<<>>} \cup {<<k>> : k \in Cols} :
           asic_init(yaml, setup, analog)
    \/ astropix2_asic_update
    \/ \E row \in Rows, kw \in Passed : astropix2_enable_inj_row(row, kw)
    \/ \E col \in Cols, kw \in Passed : astropix2_enable_inj_col(col, kw)
    \/ \E col \in Cols, kw \in Passed : astropix2_enable_ampout_col(col, kw)
    \/ \E col \in Cols, row \in Rows, kw \in Passed : astropix2_enable_pixel(col, row, kw)
    \/ \E col \in Cols, row \in Rows, kw \in Passed : astropix2_disable_pixel(col, row, kw)
    \/ \E row \in Rows, kw \in Passed : astropix2_disable_inj_row(row, kw)
    \/ \E col \in Cols, kw \in Passed : astropix2_disable_inj_col(col, kw)
    \/ \E kw \in Passed : astropix2_reset_recconfig(kw)
    \/ \E bias_cfg \in Overrides, dac_cfg \in Overrides : update_asic_config(bias_cfg, dac_cfg)

SpecAstropix2 == InitAstropix2 /\ [][NextAstropix2]_vars

----------------------------------------------------------------------------
(* The bit field codec: Asic.__int2nbit and BitArray.uint *)

\* the Python integer n (below 2**31 here) as the set of the positions of
\* its 1 bits
BitsOf(n) ==
    IF n < 0 THEN MinusOne ELSE {i \in 0 .. 30 : (n \div (2 ^ i)) % 2 = 1}

\* BitArray.uint read least significant bit first: a mirrored decoding
RECURSIVE uint_lsbfirst(_)
uint_lsbfirst(bits) ==
    IF bits = <<>> THEN 0
    ELSE Head(bits) + 2 * uint_lsbfirst(Tail(bits))

\* BitArray.uint: the bits read as a big-endian unsigned integer
RECURSIVE uint(_)
uint(bits) ==
    IF bits = <<>> THEN 0
    ELSE 2 * uint(SubSeq(bits, 1, Len(bits) - 1)) + bits[Len(bits)]

\* a configuration file whose register vn1 is declared [n, v]
CodecConfig(v, n) ==
    << [key |-> "digitalconfig",
        val |-> << [key |-> "interrupt_pushpull", val |-> [nbits |-> 1, value |-> {0}]] >>],
       [key |-> "idacs",
        val |-> << [key |-> "vn1", val |-> [nbits |-> n, value |-> BitsOf(v)]] >>] >>

\* a version 2 chip loaded with the register [nbits, value]; value runs
\* from -1 to 2**nbits, one below and one above what nbits bits hold
InitCodec ==
    /\ nbits \in 1 .. MaxWidth
    /\ value \in -1 .. 2 ^ nbits
    /\ bitarray = <<>>
    /\ asic_config = CodecConfig(value, nbits)
    /\ num_rows = InitDim
    /\ num_cols = InitDim
    /\ chipversion = 2
    /\ asic_start = FALSE
    /\ inject = <<>>
    /\ raised = "none"
    /\ written = <<>>
    /\ logged = {}
    /\ IdleDecode
    /\ IdleRun

\* self.__int2nbit(value, nbits): the ValueError of BitArray is caught and
\* logged, and the call returns (None) to its caller
int2nbit_call ==
    /\ bitarray = <<>>
    /\ bitarray' = int2nbit(BitsOf(value), nbits)
    /\ raised' = "none"
    /\ logged' = IF Fits(BitsOf(value), nbits) THEN {} ELSE {"error"}
    /\ written' = <<>>
    /\ UNCHANGED <<asic_config, num_rows, num_cols, chipversion, asic_start, inject,
                   value, nbits, decodevars, runvars>>

\* asic_update() of the map that holds the register
codec_asic_update ==
    /\ written = <<>>
    /\ \E o \in asic_update_call : Apply(o)

NextCodec ==
    \/ int2nbit_call
    \/ codec_asic_update

SpecCodec == InitCodec /\ [][NextCodec]_vars

----------------------------------------------------------------------------
(* core.decode.Decode and astropix2.decode_readout *)

\* what the FPGA puts into the buffer: the idle byte 0xBC, the padding
\* byte 0xFF, the byte 0x3D, a hit frame, a hit frame with the two filler
\* values inside, and the first three bytes of a hit frame
Pieces ==
    { <<188>>, <<255>>, <<61>>,
      <<4, 129, 5, 2, 48>>,
      <<16, 188, 255, 64, 12>>,
      <<4, 129, 5>> }

Streams == UNION {[1 .. n -> Pieces] : n \in 0 .. MaxSeg}

\* the bytes of the pieces, in order
RECURSIVE Flatten(_)
Flatten(ps) == IF ps = <<>> THEN <<>> ELSE Head(ps) \o Flatten(Tail(ps))

\* a reversal of the order of the bytes instead of the bits of each byte
reverse_bitorder_bytes(data) == Reverse(data)

\* Decode.reverse_bitorder(data): item_rev = BitArray(uint=item, length=8);
\* item_rev.reverse(); data[index] = item_rev.uint
reverse_bitorder(data) ==
    [index \in DOMAIN data |-> uint(Reverse(BitArray(BitsOf(data[index]), 8)))]

\* idle_byte = 0xbc if reverse_bitorder else 0x3d
idle_byte(reverse) == IF reverse THEN 188 ELSE 61

\* readout[i] == idle_byte or readout[i] == 0xff  (i counts from 0)
IsFiller(buf, i, reverse) == buf[i + 1] = idle_byte(reverse) \/ buf[i + 1] = 255

\* a slice one byte longer than the step of the scan
Slice_long(buf, i) ==
    SubSeq(buf, i + 1, IF i + 6 <= Len(buf) THEN i + 6 ELSE Len(buf))

\* readout[i:i + self.bytesperhit]: the slice ends with the buffer
Slice(buf, i) ==
    SubSeq(buf, i + 1, IF i + 5 <= Len(buf) THEN i + 5 ELSE Len(buf))

\* the values of i at which the loop of hits_from_readoutstream appends a
\* frame, from index i on
RECURSIVE frame_starts(_, _, _)
frame_starts(buf, i, reverse) ==
    IF i >= Len(buf) THEN <<>>
    ELSE IF IsFiller(buf, i, reverse) THEN frame_starts(buf, i + 1, reverse)
    ELSE <<i>> \o frame_starts(buf, i + 5, reverse)

\* a frame that ends ahead of a filler value among its bytes
Hit_realigned(buf, i, reverse) ==
    LET stop == IF \E k \in i + 1 .. Len(Slice(buf, i)) + i - 1 : IsFiller(buf, k, reverse)
                THEN CHOOSE k \in i + 1 .. Len(Slice(buf, i)) + i - 1 :
                         /\ IsFiller(buf, k, reverse)
                         /\ \A j \in i + 1 .. k - 1 : ~IsFiller(buf, j, reverse)
                ELSE i + Len(Slice(buf, i))
    IN  IF reverse THEN reverse_bitorder(SubSeq(buf, i + 1, stop))
        ELSE SubSeq(buf, i + 1, stop)

\* what hitlist.append gets at position i
Hit(buf, i, reverse) ==
    IF reverse THEN reverse_bitorder(Slice(buf, i)) ELSE Slice(buf, i)

\* a reversal made in the caller's buffer instead of in the slice
buffer_after_hit_inplace(buf, i, reverse) ==
    IF reverse
    THEN [k \in DOMAIN buf |->
             IF k \in i + 1 .. i + 5 THEN reverse_bitorder(<<buf[k]>>)[1] ELSE buf[k]]
    ELSE buf

\* the caller's buffer after hitlist.append at position i: readout[i:i + 5]
\* is a new object, reverse_bitorder assigns to the items of that object,
\* and nothing else in the loop assigns to readout
buffer_after_hit(buf, i, reverse) == buf

\* Decode.hits_from_readoutstream(readout, reverse_bitorder) from index i
\* on: the whole loop
RECURSIVE hits_from_readoutstream(_, _, _)
hits_from_readoutstream(buf, i, reverse) ==
    IF i >= Len(buf) THEN <<>>
    ELSE IF IsFiller(buf, i, reverse) THEN hits_from_readoutstream(buf, i + 1, reverse)
    ELSE <<Hit(buf, i, reverse)>> \o hits_from_readoutstream(buf, i + 5, reverse)

\* a decoder that takes the chip id from bits 7..4 and ToT from byte 3 whole
hit_fields_wide(hit) ==
    [id        |-> hit[1] \div 16,
     payload   |-> hit[1] % 8,
     location  |-> hit[2] % 64,
     col       |-> (hit[2] \div 128) % 2,
     timestamp |-> hit[3],
     tot_msb   |-> hit[4],
     tot_lsb   |-> hit[5],
     tot_total |-> hit[4] * 256 + hit[5]]

\* the values decode_readout and decode_astropix2_hits take from a frame
hit_fields(hit) ==
    [id        |-> hit[1] \div 8,
     payload   |-> hit[1] % 8,
     location  |-> hit[2] % 64,
     col       |-> (hit[2] \div 128) % 2,
     timestamp |-> hit[3],
     tot_msb   |-> hit[4] % 16,
     tot_lsb   |-> hit[5],
     tot_total |-> (hit[4] % 16) * 256 + hit[5]]

\* Decode.decode_astropix2_hits(list_hits): frames that are not 5 bytes long
\* are passed over
decode_astropix2_hits_rows(list_hits) ==
    LET whole == SelectSeq(list_hits, LAMBDA hit : Len(hit) = 5)
    IN  [k \in DOMAIN whole |-> hit_fields(whole[k])]

\* Decode.decode_astropix2_hits(list_hits) returns the DataFrame of the rows:
\* no statement of it raises on a list of byte sequences
decode_astropix2_hits_call(list_hits) ==
    [raised |-> "none", hits |-> decode_astropix2_hits_rows(list_hits)]

\* astropix2.decode_readout(readout, i): the frames are extracted with the
\* default reverse_bitorder=True; hit[0] .. hit[4] are read of every frame,
\* which is an IndexError on a frame of fewer than 5 bytes, and then no
\* DataFrame is returned
decode_readout_call(buf) ==
    LET list_hits == hits_from_readoutstream(buf, 0, TRUE)
    IN  IF \E k \in DOMAIN list_hits : Len(list_hits[k]) < 5
        THEN [raised |-> "IndexError", hits |-> <<>>]
        ELSE [raised |-> "none", hits |-> [k \in DOMAIN list_hits |-> hit_fields(list_hits[k])]]

\* a buffer has been read from the FPGA; the caller picks the bit order
InitDecode ==
    /\ sent \in Streams
    /\ readout = Flatten(sent)
    /\ bitorder \in BOOLEAN
    /\ pos = 0
    /\ hitlist = <<>>
    /\ decoded = <<>>
    /\ asic_config = <<>>
    /\ num_rows = InitDim
    /\ num_cols = InitDim
    /\ chipversion = 0
    /\ asic_start = FALSE
    /\ inject = <<>>
    /\ raised = "none"
    /\ written = <<>>
    /\ logged = {}
    /\ IdleCodec
    /\ IdleRun

\* one pass of the while loop of hits_from_readoutstream on a filler byte
skip_filler ==
    /\ pos < Len(readout)
    /\ IsFiller(readout, pos, bitorder)
    /\ pos' = pos + 1
    /\ UNCHANGED <<asicvars, codecvars, runvars, sent, readout, bitorder, hitlist, decoded>>

\* one pass of the while loop on any other byte
take_hit ==
    /\ pos < Len(readout)
    /\ ~IsFiller(readout, pos, bitorder)
    /\ hitlist' = Append(hitlist, Hit(readout, pos, bitorder))
    /\ readout' = buffer_after_hit(readout, pos, bitorder)
    /\ pos' = pos + 5
    /\ UNCHANGED <<asicvars, codecvars, runvars, sent, bitorder, decoded>>

\* decode_astropix2_hits of the list the loop returned
decode_astropix2_hits ==
    /\ pos >= Len(readout)
    /\ decoded' = decode_astropix2_hits_call(hitlist).hits
    /\ raised' = decode_astropix2_hits_call(hitlist).raised
    /\ UNCHANGED <<asic_config, num_rows, num_cols, chipversion, asic_start, inject,
                   written, logged, codecvars, runvars, sent, readout, bitorder, pos, hitlist>>

\* astropix2.decode_readout of the buffer
decode_readout ==
    /\ pos = 0
    /\ decoded' = decode_readout_call(readout).hits
    /\ raised' = decode_readout_call(readout).raised
    /\ UNCHANGED <<asic_config, num_rows, num_cols, chipversion, asic_start, inject,
                   written, logged, codecvars, runvars, sent, readout, bitorder, pos, hitlist>>

NextDecode ==
    \/ skip_filler
    \/ take_hit
    \/ decode_astropix2_hits
    \/ decode_readout

SpecDecode == InitDecode /\ [][NextDecode]_vars

----------------------------------------------------------------------------
(* The field decoder on one frame of any content *)

\* bytes of a buffer of five: 0x10 0x81 0xA0 0x40 0x0C are the bytes of the
\* frame 08 81 05 02 30 as they come off the link; 0xBC and 0xFF are the
\* fillers, and 0xF7 has bits in every field mask and outside
FrameBytes == {16, 129, 160, 64, 12, 188, 255, 247}

\* a buffer of five bytes has been read, to be taken in bit-reversed mode
InitFields ==
    /\ readout \in [1 .. 5 -> FrameBytes]
    /\ sent = <<readout>>
    /\ bitorder = TRUE
    /\ pos = 0
    /\ hitlist = <<>>
    /\ decoded = <<>>
    /\ asic_config = <<>>
    /\ num_rows = InitDim
    /\ num_cols = InitDim
    /\ chipversion = 0
    /\ asic_start = FALSE
    /\ inject = <<>>
    /\ raised = "none"
    /\ written = <<>>
    /\ logged = {}
    /\ IdleCodec
    /\ IdleRun

SpecFields == InitFields /\ [][NextDecode]_vars

----------------------------------------------------------------------------
(* The run scripts: beam_test.py and example_loop.py *)

\* what get_readout returns when hits are present: idle bytes only, an idle
\* byte and a hit frame, a hit frame and the first three bytes of another
RunReadouts ==
    { << <<188>>, <<188>> >>,
      << <<188>>, <<4, 129, 5, 2, 48>> >>,
      << <<4, 129, 5, 2, 48>>, <<4, 129, 5>> >> }

\* the command line: --inject (<<>> is None, the default), --errormax,
\* --maxruns (<<>> is None, the default)
RunArgs ==
    [script   : {"beam_test", "example_loop"},
     inject   : {<<>>, <<0>>, <<1>>},
     errormax : 0 .. MaxErrormax,
     maxruns  : {<<>>} \cup {<<n>> : n \in 1 .. MaxRuns}]

\* a loop that ends as soon as the failures reach the budget
budget_left_strict(errs, max_errors) == errs < max_errors

\* while errors <= max_errors:
budget_left(errs, max_errors) == errs <= max_errors

\* if args.maxruns is not None: if i >= args.maxruns: break
maxruns_reached(a, i) == a.maxruns # <<>> /\ i >= a.maxruns[1]

\* the finally clause: "if args.inject:" in beam_test.py, "if args.inject
\* is not None:" in example_loop.py
stops_injection(a) ==
    IF a.script = "beam_test"
    THEN a.inject # <<>> /\ a.inject[1] # 0
    ELSE a.inject # <<>>

\* main(args) up to the run loop: the FPGA is opened by the constructor,
\* "if args.inject is not None: astro.start_injection()"
main_setup(a) ==
    /\ pc = "idle"
    /\ args' = a
    /\ hwcalls' = <<"open">> \o (IF a.inject # <<>> THEN <<"start_injection">> ELSE <<>>)
    /\ run_i' = 0
    /\ errors' = 0
    /\ records' = <<>>
    /\ ending' = "none"
    /\ pc' = "loop"
    /\ UNCHANGED <<asicvars, codecvars, decodevars>>

\* one pass of the while loop with hits present: get_readout,
\* decode_readout, "except IndexError: errors += 1" with the failure frame
\* stamped hits.readout = i, "finally: i += 1"
take_readout(ps) ==
    /\ pc = "loop"
    /\ budget_left(errors, args.errormax)
    /\ ~maxruns_reached(args, run_i)
    /\ run_i <= MaxRuns
    /\ LET failed == decode_readout_call(Flatten(ps)).raised = "IndexError"
       IN  /\ errors' = IF failed THEN errors + 1 ELSE errors
           /\ records' = Append(records, [readout |-> run_i, failed |-> failed, sent |-> ps])
    /\ run_i' = run_i + 1
    /\ UNCHANGED <<asicvars, codecvars, decodevars, args, pc, ending, hwcalls>>

\* the while condition fails, or the maxruns break is taken
loop_end ==
    /\ pc = "loop"
    /\ ~budget_left(errors, args.errormax) \/ maxruns_reached(args, run_i)
    /\ ending' = IF ~budget_left(errors, args.errormax) THEN "errors" ELSE "maxruns"
    /\ pc' = "finally"
    /\ UNCHANGED <<asicvars, codecvars, decodevars, args, run_i, errors, records, hwcalls>>

\* except KeyboardInterrupt / except Exception
loop_except(e) ==
    /\ pc = "loop"
    /\ ending' = e
    /\ pc' = "finally"
    /\ UNCHANGED <<asicvars, codecvars, decodevars, args, run_i, errors, records, hwcalls>>

\* finally: stop_injection under the script's condition, then close_connection
main_finally ==
    /\ pc = "finally"
    /\ hwcalls' = hwcalls \o (IF stops_injection(args) THEN <<"stop_injection">> ELSE <<>>)
                          \o <<"close_connection">>
    /\ pc' = "ended"
    /\ UNCHANGED <<asicvars, codecvars, decodevars, args, run_i, errors, records, ending>>

NextRun ==
    \/ \E a \in RunArgs : main_setup(a)
    \/ \E ps \in RunReadouts : take_readout(ps)
    \/ loop_end
    \/ \E e \in {"KeyboardInterrupt", "Exception"} : loop_except(e)
    \/ main_finally

SpecRun == Init /\ [][NextRun]_vars

----------------------------------------------------------------------------
(* Properties *)

\* a configuration file has been loaded: the register map exists
Loaded == Has(asic_config, "recconfig")

\* the receiver group of a configuration and the value of one of its words
Receiver(cfg) == Get(cfg, "recconfig")
Word(cfg, c) == Get(Receiver(cfg), c).value

InRange(i, n) == 0 <= i /\ i < n

\* every group but the receiver group is the same in cfg1 and cfg2
SameOtherGroups(cfg1, cfg2) ==
    /\ Len(cfg2) = Len(cfg1)
    /\ \A g \in DOMAIN cfg1 :
           /\ cfg2[g].key = cfg1[g].key
           /\ cfg1[g].key # "recconfig" => cfg2[g] = cfg1[g]

\* cfg2 has the entries of cfg1, with the same widths, and the same values
\* except possibly for the value of receiver entry c
SameExceptWord(cfg1, cfg2, c) ==
    /\ SameOtherGroups(cfg1, cfg2)
    /\ Len(Receiver(cfg2)) = Len(Receiver(cfg1))
    /\ \A i \in DOMAIN Receiver(cfg1) :
           /\ Receiver(cfg2)[i].key = Receiver(cfg1)[i].key
           /\ Receiver(cfg2)[i].val.nbits = Receiver(cfg1)[i].val.nbits
           /\ Receiver(cfg1)[i].key # c => Receiver(cfg2)[i] = Receiver(cfg1)[i]

\* the columns whose word has bit 37 set
AnalogSelected(cfg) ==
    {Receiver(cfg)[i].key : i \in {j \in DOMAIN Receiver(cfg) : 37 \in Receiver(cfg)[j].val.value}}

\* C1: after enable_ampout_col(k) with a valid column k, from any state of
\* the register map, exactly one receiver entry has bit 37 set, and it is
\* entry k.
C1_AnalogSelectExclusive ==
    Loaded =>
        \A k \in Cols, kw \in Keywords :
            InRange(k, num_cols) =>
                \A o \in enable_ampout_col_call(k, kw) :
                    o.raised = "none" /\ AnalogSelected(o.cfg) = {k}

\* C2: for in-bounds (col, row), enable_pixel clears and disable_pixel sets
\* exactly bit row+1 of receiver[col]; every other bit of the word, every
\* other receiver entry and every digital, bias and dac entry stay as they
\* were.
C2_PixelMaskBit ==
    Loaded =>
        \A col \in Cols, row \in Rows, kw \in Passed :
            InRange(col, num_cols) /\ InRange(row, num_rows) =>
                /\ \A e \in enable_pixel_call(col, row, kw) :
                       /\ e.raised = "none"
                       /\ SameExceptWord(asic_config, e.cfg, col)
                       /\ Word(e.cfg, col) = Word(asic_config, col) \ {row + 1}
                /\ \A d \in disable_pixel_call(col, row, kw) :
                       /\ d.raised = "none"
                       /\ SameExceptWord(asic_config, d.cfg, col)
                       /\ Word(d.cfg, col) = Word(asic_config, col) \cup {row + 1}

\* a pixel is enabled in a word that has bit 0, bit 36 and bit 37 set
C2_Witness ==
    /\ Loaded
    /\ raised = "none"
    /\ \E col \in 0 .. num_cols - 1, row \in 0 .. num_rows - 1 :
           /\ (row + 1) \notin Word(asic_config, col)
           /\ {0, 36, 37} \subseteq Word(asic_config, col)

\* C3: enable_pixel is idempotent: after enable_pixel(c, r) has returned, a
\* second enable_pixel(c, r) returns and leaves the register map as the
\* first call left it.
C3_EnablePixelIdempotent ==
    \A col \in Cols, row \in Rows, kw \in Passed :
        \A first \in enable_pixel_call(col, row, kw) :
            first.raised = "none" =>
                enable_pixel_body(first.cfg, num_rows, num_cols, col, row)
                    = Return(first.cfg)

\* a call has enabled a pixel and written the configuration
C3_Witness ==
    /\ Loaded
    /\ raised = "none"
    /\ written # <<>>
    /\ \E col \in 0 .. num_cols - 1, row \in 0 .. num_rows - 1 :
           (row + 1) \notin Word(asic_config, col)

\* the word enable_pixel(col, row) makes of the disabled-default word
EnabledFromDefault(col, row) ==
    Word(enable_pixel_body(RecAssign(asic_config, col, 1 .. 35),
                           num_rows, num_cols, col, row).cfg, col)

\* C4: from the disabled-default word of column c, enable_pixel(c, r)
\* followed by disable_pixel(c, r) restores exactly the disabled-default
\* word (and the whole register map), for every in-bounds c and r.
C4_DisableUndoesEnable ==
    Loaded =>
        \A col \in Cols, row \in Rows :
            InRange(col, num_cols) /\ InRange(row, num_rows) =>
                /\ Word(asic_config, col) = 1 .. 35 =>
                       LET e == enable_pixel_body(asic_config, num_rows, num_cols, col, row)
                           d == disable_pixel_body(e.cfg, num_rows, num_cols, col, row)
                       IN  e.raised = "none" /\ d = Return(asic_config)
                /\ Word(asic_config, col) = EnabledFromDefault(col, row) =>
                       LET d == disable_pixel_body(asic_config, num_rows, num_cols, col, row)
                       IN  d.raised = "none" /\ Word(d.cfg, col) = 1 .. 35

\* enable_pixel(col, row) has acted on the disabled-default word
C4_Witness ==
    /\ Loaded
    /\ \E col \in 0 .. num_cols - 1, row \in 0 .. num_rows - 1 :
           Word(asic_config, col) = (1 .. 35) \ {row + 1}

\* a call that is a logged, non-fatal no-op
NoOp(os) ==
    \A o \in os : o.raised = "none" /\ o.cfg = asic_config /\ "warning" \in o.logged

\* C5: a pixel or injection mutation addressed with a row or column outside
\* the configured bounds (negative, or at or above the count) raises no
\* error, leaves every register entry unchanged and logs a warning.
C5_OutOfBoundsNoOp ==
    Loaded =>
        /\ \A col \in Cols, row \in Rows, kw \in Keywords :
               ~InRange(col, num_cols) \/ ~InRange(row, num_rows) =>
                   /\ NoOp(enable_pixel_call(col, row, kw))
                   /\ NoOp(disable_pixel_call(col, row, kw))
        /\ \A row \in Rows, kw \in Keywords :
               ~InRange(row, num_rows) =>
                   /\ NoOp(enable_inj_row_call(row, kw))
                   /\ NoOp(disable_inj_row_call(row, "default"))
        /\ \A col \in Cols, kw \in Keywords :
               ~InRange(col, num_cols) =>
                   /\ NoOp(enable_inj_col_call(col, kw))
                   /\ NoOp(disable_inj_col_call(col, "default"))

\* C6: enable_ampout_col(col) with col outside 0 .. num_cols-1 (col =
\* num_cols included) raises no error and changes no receiver entry.
C6_AmpoutOutOfBoundsNoOp ==
    Loaded =>
        \A col \in Cols, kw \in Keywords :
            ~InRange(col, num_cols) =>
                \A o \in enable_ampout_col_call(col, kw) :
                    o.raised = "none" /\ Receiver(o.cfg) = Receiver(asic_config)

\* C7: in the register map that is serialized to the chip,
\* enable_inj_col(col) sets and disable_inj_col(col) clears bit 36 of
\* receiver[col] and changes no other bit and no other entry, so that
\* disable_inj_col after enable_inj_col leaves bit 36 clear.
C7_InjectionColumnBit ==
    Loaded =>
        \A col \in Cols, kw \in Keywords :
            InRange(col, num_cols) =>
                /\ \A e \in astropix2_enable_inj_col_call(col, kw) :
                       /\ e.raised = "none"
                       /\ SameExceptWord(asic_config, e.cfg, col)
                       /\ Word(e.cfg, col) = Word(asic_config, col) \cup {36}
                /\ \A d \in astropix2_disable_inj_col_call(col, "default") :
                       /\ d.raised = "none"
                       /\ SameExceptWord(asic_config, d.cfg, col)
                       /\ Word(d.cfg, col) = Word(asic_config, col) \ {36}

\* C8: for any geometry and any row in 0 .. num_rows-1, enable_inj_row(row)
\* sets and disable_inj_row(row) clears bit 0 of receiver[row], changes no
\* other bit or entry, and does not fail.
C8_InjectionRowBit ==
    Loaded =>
        \A row \in Rows, kw \in Keywords :
            InRange(row, num_rows) =>
                /\ \A e \in enable_inj_row_call(row, kw) :
                       /\ e.raised = "none"
                       /\ Has(Receiver(e.cfg), row)
                       /\ SameExceptWord(asic_config, e.cfg, row)
                       /\ Word(e.cfg, row) = Word(asic_config, row) \cup {0}
                /\ \A d \in disable_inj_row_call(row, "default") :
                       /\ d.raised = "none"
                       /\ Has(Receiver(d.cfg), row)
                       /\ SameExceptWord(asic_config, d.cfg, row)
                       /\ Word(d.cfg, row) = Word(asic_config, row) \ {0}

\* C9: reset_recconfig, from any state of the register map, sets every
\* receiver entry to the word with bits 35..1 set and bits 37, 36 and 0
\* clear, keeps the receiver entries and their widths, and leaves the
\* digital, bias and dac entries unchanged.
C9_ResetAll ==
    Loaded =>
        \A o \in reset_recconfig_call("default") :
            /\ o.raised = "none"
            /\ SameOtherGroups(asic_config, o.cfg)
            /\ Len(Receiver(o.cfg)) = Len(Receiver(asic_config))
            /\ \A i \in DOMAIN Receiver(asic_config) :
                   /\ Receiver(o.cfg)[i].key = Receiver(asic_config)[i].key
                   /\ Receiver(o.cfg)[i].val.nbits = Receiver(asic_config)[i].val.nbits
                   /\ Receiver(o.cfg)[i].val.value = {b \in 0 .. 37 : 1 <= b /\ b <= 35}

\* every word of a map with two or more columns is the disabled-default
\* word after a call that returned, wrote nothing and logged nothing
C9_Witness ==
    /\ Loaded
    /\ raised = "none"
    /\ written = <<>>
    /\ logged = {}
    /\ Len(Receiver(asic_config)) >= 2
    /\ \A i \in DOMAIN Receiver(asic_config) :
           Receiver(asic_config)[i].val.value = 1 .. 35

\* the writes of the serialized configuration among the writes of a call
\* (a version 1 chip gets 245 dummy bits ahead of its configuration)
ConfigWrites(o) == SelectSeq(o.written, LAMBDA v : v # DummyBits)

\* the call returned after exactly one write, of the configuration it left
WritesOnce(os) ==
    \A o \in os :
        /\ o.raised = "none"
        /\ ConfigWrites(o) = <<asic_vector(o.cfg, FALSE)>>

\* the call returned without a write
WritesNothing(os) == \A o \in os : o.raised = "none" /\ o.written = <<>>

\* C10: every mutation of the register map takes the flag: with
\* inplace=True exactly one configuration write happens, after the
\* mutation; with inplace=False none happens.
C10_ApplyImmediately ==
    Loaded =>
        /\ \A col \in Cols, row \in Rows :
               InRange(col, num_cols) /\ InRange(row, num_rows) =>
                   /\ WritesOnce(enable_pixel_call(col, row, "True"))
                   /\ WritesNothing(enable_pixel_call(col, row, "False"))
                   /\ WritesOnce(disable_pixel_call(col, row, "True"))
                   /\ WritesNothing(disable_pixel_call(col, row, "False"))
        /\ \A col \in Cols :
               InRange(col, num_cols) =>
                   /\ WritesOnce(enable_inj_col_call(col, "True"))
                   /\ WritesNothing(enable_inj_col_call(col, "False"))
                   /\ WritesOnce(enable_ampout_col_call(col, "True"))
                   /\ WritesNothing(enable_ampout_col_call(col, "False"))
                   /\ WritesOnce(disable_inj_col_call(col, "True"))
                   /\ WritesNothing(disable_inj_col_call(col, "False"))
        /\ \A row \in Rows :
               InRange(row, num_rows) /\ InRange(row, num_cols) =>
                   /\ WritesOnce(enable_inj_row_call(row, "True"))
                   /\ WritesNothing(enable_inj_row_call(row, "False"))
                   /\ WritesOnce(disable_inj_row_call(row, "True"))
                   /\ WritesNothing(disable_inj_row_call(row, "False"))
        /\ WritesOnce(reset_recconfig_call("True"))
        /\ WritesNothing(reset_recconfig_call("False"))
----------------------------------------------------------------------------
(* The bitstream, stated from the register entries *)

\* the groups in their fixed order: digital, bias, dac, receiver
GroupOrder == <<"digitalconfig", "biasconfig", "idacs", "recconfig">>

\* the entries [nbits, value] of the named groups, in insertion order
RECURSIVE EntriesOf(_, _)
EntriesOf(cfg, names) ==
    IF names = <<>> THEN <<>>
    ELSE [k \in DOMAIN Get(cfg, Head(names)) |-> Get(cfg, Head(names))[k].val]
             \o EntriesOf(cfg, Tail(names))

RECURSIVE SumWidths(_)
SumWidths(entries) ==
    IF entries = <<>> THEN 0 ELSE Head(entries).nbits + SumWidths(Tail(entries))

\* bit p (1 = first) of the concatenation of the big-endian encodings
RECURSIVE BitAt(_, _)
BitAt(entries, p) ==
    IF p <= Head(entries).nbits
    THEN IF (Head(entries).nbits - p) \in Head(entries).value THEN 1 ELSE 0
    ELSE BitAt(Tail(entries), p - Head(entries).nbits)

Bitstream(entries) == [p \in 1 .. SumWidths(entries) |-> BitAt(entries, p)]

\* the whole concatenation reversed end to end
ReversedBitstream(entries) ==
    [p \in 1 .. SumWidths(entries) |-> BitAt(entries, SumWidths(entries) + 1 - p)]

\* the positions, in the reversed bitstream of the map, of the bits of
\* receiver entry c (none when the map has no such entry)
OwnedReversed(cfg, c) ==
    IF ~Has(Receiver(cfg), c) THEN {}
    ELSE LET before == SumWidths(EntriesOf(cfg, <<"digitalconfig", "biasconfig", "idacs">>))
                           + SumWidths(SubSeq(EntriesOf(cfg, <<"recconfig">>),
                                              1, Idx(Receiver(cfg), c) - 1))
             total  == SumWidths(EntriesOf(cfg, GroupOrder))
         IN  {total + 1 - p : p \in before + 1 .. before + Get(Receiver(cfg), c).nbits}

DiffPositions(v1, v2) ==
    IF Len(v1) # Len(v2) THEN 1 .. (Len(v1) + Len(v2))
    ELSE {p \in 1 .. Len(v1) : v1[p] # v2[p]}

\* the vector of the map a mutation leaves differs from the vector before
\* only within the bits of receiver entry c (a map that is left as it was
\* has the vector it had)
LocalTo(before, r, c) ==
    r.cfg # asic_config =>
        DiffPositions(before, asic_vector(r.cfg, FALSE)) \subseteq OwnedReversed(asic_config, c)

----------------------------------------------------------------------------
(* The bit field codec *)

C16_RangeErrorIsFatal ==
    ~(0 <= value /\ value < 2 ^ nbits) =>
        /\ bitarray # <<>> /\ written = <<>> => raised # "none"
        /\ written = <<>>
        /\ \A o \in asic_update_call : o.raised # "none" /\ o.written = <<>>

----------------------------------------------------------------------------
(* Overrides *)

\* the keys of the dict other are entries of the group d
KnownKeys(d, other) == \A i \in DOMAIN other : Has(d, other[i].key)

\* group d with the value of every entry named in other overwritten, the
\* widths and every other entry as they were
Overwritten(d, other) ==
    [i \in DOMAIN d |->
        IF \E j \in DOMAIN other : other[j].key = d[i].key
        THEN [d[i] EXCEPT !.val.value =
                 other[CHOOSE j \in DOMAIN other : other[j].key = d[i].key].val.value]
        ELSE d[i]]

\* C17 as claimed: on an initialised session, overrides of the dac group
\* with a key that is not an entry of the group fail and create no entry;
\* with keys that are entries the call returns, having overwritten the
\* value of each named entry and nothing else.
C17_OverridesKnownKeysOnly ==
    asic_start /\ Loaded =>
        \A dac_cfg \in Overrides \ {<<>>} : \A o \in update_asic_config_call(<<>>, dac_cfg) :
            LET idacs == Get(asic_config, "idacs")
            IN  IF KnownKeys(idacs, dac_cfg)
                THEN /\ o.raised = "none"
                     /\ o.cfg = Put(asic_config, "idacs", Overwritten(idacs, dac_cfg))
                ELSE /\ o.raised # "none"
                     /\ o.cfg = asic_config

----------------------------------------------------------------------------
(* Frame extraction *)

\* the byte b with bit 0 <-> bit 7, bit 1 <-> bit 6, ...
RevByte(b) ==
    (b % 2) * 128 + ((b \div 2) % 2) * 64 + ((b \div 4) % 2) * 32
        + ((b \div 8) % 2) * 16 + ((b \div 16) % 2) * 8 + ((b \div 32) % 2) * 4
        + ((b \div 64) % 2) * 2 + ((b \div 128) % 2)

\* a five-byte hit frame: its first byte is not 0xBC or 0xFF
IsFrame(p) == Len(p) = 5 /\ p[1] \notin {188, 255}

\* the buffer is made of hit frames and of the filler bytes 0xBC and 0xFF
FramesAndFillers(ps) ==
    \A k \in DOMAIN ps : IsFrame(ps[k]) \/ ps[k] \in {<<188>>, <<255>>}

\* the hit frames of a buffer, each byte bit-reversed
ReversedFrames(ps) ==
    LET frames == SelectSeq(ps, IsFrame)
    IN  [k \in DOMAIN frames |-> [j \in 1 .. 5 |-> RevByte(frames[k][j])]]

\* C18: of a buffer made of K five-byte hit frames with any runs of 0xBC
\* and 0xFF before, between and after them, extraction in bit-reversed
\* mode yields exactly the K frames, in order, every byte bit-reversed.
C18_ExtractReversedFrames ==
    FramesAndFillers(sent) =>
        /\ hits_from_readoutstream(readout, 0, TRUE) = ReversedFrames(sent)
        /\ bitorder /\ pos >= Len(readout) => hitlist = ReversedFrames(sent)

\* the scan of 0xBC <frame> 0xFF <frame> has ended with two frames
C18_Witness ==
    /\ bitorder
    /\ Len(sent) = 4
    /\ sent[1] = <<188>> /\ IsFrame(sent[2]) /\ sent[3] = <<255>> /\ IsFrame(sent[4])
    /\ sent[2] # sent[4]
    /\ pos >= Len(readout)
    /\ Len(hitlist) = 2

\* C19: a step of the scan at a filler byte moves one byte on and takes
\* nothing; a step at any other byte takes that byte and the (up to) four
\* after it as one frame, whatever their values, and moves five bytes on.
C19_NoRealign ==
    [][pos' # pos =>
          IF readout[pos + 1] \in (IF bitorder THEN {188, 255} ELSE {61, 255})
          THEN /\ pos' = pos + 1
               /\ hitlist' = hitlist
          ELSE /\ pos' = pos + 5
               /\ hitlist' = Append(hitlist,
                      [k \in 1 .. (IF pos + 5 <= Len(readout) THEN 5 ELSE Len(readout) - pos)
                          |-> IF bitorder THEN RevByte(readout[pos + k])
                              ELSE readout[pos + k]])]_vars

\* a frame with 0xBC and 0xFF among its bytes has been taken whole after an
\* idle byte, and the scan stands five bytes past its start
C19_Witness ==
    /\ bitorder
    /\ Len(sent) >= 2
    /\ sent[1] = <<188>>
    /\ sent[2] = <<16, 188, 255, 64, 12>>
    /\ hitlist = << <<8, 61, 255, 2, 48>> >>
    /\ pos = 6

\* the buffer ends with three bytes of a frame after frames and fillers
CutOff(ps) ==
    /\ ps # <<>>
    /\ ps[Len(ps)] = <<4, 129, 5>>
    /\ FramesAndFillers(SubSeq(ps, 1, Len(ps) - 1))

\* C20 as claimed: of a buffer that ends with a cut-off frame the caller
\* gets an error, no hit made of the partial tail, and the hits of the
\* complete frames ahead of it.
C20_TruncatedFrameReported ==
    CutOff(sent) =>
        LET whole == ReversedFrames(SubSeq(sent, 1, Len(sent) - 1))
        IN  /\ decode_readout_call(readout).raised # "none"
            /\ Len(decode_readout_call(readout).hits) = Len(whole)
            /\ bitorder /\ pos >= Len(readout) /\ pos > 0 =>
                   /\ raised # "none"
                   /\ hitlist = whole

----------------------------------------------------------------------------
(* Field decoding *)

\* the integer whose 1 bits stand at the positions of the set
RECURSIVE ValueOf(_)
ValueOf(bitset) ==
    IF bitset = {} THEN 0
    ELSE LET b == CHOOSE x \in bitset : TRUE
         IN  2 ^ b + ValueOf(bitset \ {b})

\* the bits lo .. hi of byte b, moved down to position 0
Field(b, lo, hi) == ValueOf({i - lo : i \in {j \in lo .. hi : (b \div (2 ^ j)) % 2 = 1}})

\* the fields of a five-byte frame, by their bit positions
FieldsByBits(f) ==
    [id        |-> Field(f[1], 3, 7),
     payload   |-> Field(f[1], 0, 2),
     location  |-> Field(f[2], 0, 5),
     col       |-> Field(f[2], 7, 7),
     timestamp |-> Field(f[3], 0, 7),
     tot_msb   |-> Field(f[4], 0, 3),
     tot_lsb   |-> Field(f[5], 0, 7),
     tot_total |-> ValueOf({i + 8 : i \in {j \in 0 .. 3 : (f[4] \div (2 ^ j)) % 2 = 1}}
                               \cup {j \in 0 .. 7 : (f[5] \div (2 ^ j)) % 2 = 1})]

InFieldRanges(h) ==
    /\ h.id \in 0 .. 31
    /\ h.payload \in 0 .. 7
    /\ h.location \in 0 .. 63
    /\ h.col \in 0 .. 1
    /\ h.timestamp \in 0 .. 255
    /\ h.tot_total \in 0 .. 4095

\* C21: of every five-byte frame after bit reversal the decoders give
\* chip id = bits 7..3 of byte 0, payload = bits 2..0 of byte 0, location =
\* bits 5..0 of byte 1, column flag = bit 7 of byte 1, timestamp = byte 2,
\* tot_total = bits 3..0 of byte 3 above the 8 bits of byte 4 (the sum is
\* the bitwise or), every field within its range.
C21_FieldsOfFrame ==
    /\ \A k \in DOMAIN hitlist :
           Len(hitlist[k]) = 5 =>
               /\ hit_fields(hitlist[k]) = FieldsByBits(hitlist[k])
               /\ InFieldRanges(hit_fields(hitlist[k]))
    /\ pos >= Len(readout) =>
           decode_astropix2_hits_rows(hitlist)
               = [k \in DOMAIN SelectSeq(hitlist, LAMBDA h : Len(h) = 5)
                     |-> FieldsByBits(SelectSeq(hitlist, LAMBDA h : Len(h) = 5)[k])]
    /\ readout[1] \notin {188, 255} =>
           decode_readout_call(readout)
               = [raised |-> "none",
                  hits |-> <<FieldsByBits([j \in 1 .. 5 |-> RevByte(readout[j])])>>]
    /\ \A k \in DOMAIN decoded : InFieldRanges(decoded[k])

\* the frame 08 81 05 02 30 has been decoded
C21_Witness ==
    /\ hitlist = << <<8, 129, 5, 2, 48>> >>
    /\ decoded = << [id |-> 1, payload |-> 0, location |-> 1, col |-> 1, timestamp |-> 5,
                     tot_msb |-> 2, tot_lsb |-> 48, tot_total |-> 560] >>

\* C22 as claimed: a frame that is not five bytes long and reaches a field
\* decoder ends the call with an error; it is not passed over and makes no
\* hit record.
C22_MalformedFrameSurfaced ==
    /\ (pos >= Len(readout) /\ \E k \in DOMAIN hitlist : Len(hitlist[k]) # 5) =>
           decode_astropix2_hits_call(hitlist).raised # "none"
    /\ (\E k \in DOMAIN hits_from_readoutstream(readout, 0, TRUE) :
            Len(hits_from_readoutstream(readout, 0, TRUE)[k]) # 5) =>
           decode_readout_call(readout).raised # "none"

----------------------------------------------------------------------------
(* Values and widths *)

\* C23 as claimed: after any sequence of mutation operations with
\* in-bounds arguments, in any geometry a file configures, every register
\* value fits its width, and a pixel-mask operation leaves the
\* column-injection bit 36 and the analog-select bit 37 as they were.
C23_ValuesFitWidths ==
    Loaded =>
        /\ AllFit(asic_config)
        /\ \A row \in 0 .. num_rows - 1 :
               /\ Word(enable_pixel_body(asic_config, num_rows, num_cols, 0, row).cfg, 0)
                      \cap {36, 37} = Word(asic_config, 0) \cap {36, 37}
               /\ Word(disable_pixel_body(asic_config, num_rows, num_cols, 0, row).cfg, 0)
                      \cap {36, 37} = Word(asic_config, 0) \cap {36, 37}

----------------------------------------------------------------------------
(* The run loop *)

\* the number of failed decodings among the first n records
RECURSIVE Failures(_, _)
Failures(rs, n) ==
    IF n = 0 THEN 0 ELSE Failures(rs, n - 1) + (IF rs[n].failed THEN 1 ELSE 0)

\* C24: with errormax = N a readout is taken only while at most N decodings
\* have failed, the loop is left over the budget only once more than N have
\* failed, every readout, decoded or failed, advances the index by one, and
\* the record of a readout carries that readout's index.
C24_ErrorBudget ==
    pc # "idle" =>
        /\ Len(records) = run_i
        /\ errors = Failures(records, Len(records))
        /\ \A k \in DOMAIN records :
               /\ records[k].readout = k - 1
               /\ records[k].failed <=> ~FramesAndFillers(records[k].sent)
               /\ Failures(records, k - 1) <= args.errormax
        /\ ending = "errors" => errors = args.errormax + 1
        /\ errors > args.errormax /\ pc = "loop" => ~ENABLED (\E ps \in RunReadouts : take_readout(ps))

\* with errormax = 1 the run has ended over the budget on its third readout
C24_Witness ==
    /\ pc = "ended"
    /\ ending = "errors"
    /\ args.errormax = 1
    /\ run_i = 3
    /\ records[1].failed /\ ~records[2].failed /\ records[3].failed

----------------------------------------------------------------------------
(* Overrides and the session, reading a pixel back *)

\* C26 as claimed: before asic_init, update_asic_config raises
\* RuntimeError, changes no register and writes nothing; after asic_init,
\* with a DAC override of registers of the map and no mask string, it
\* returns having updated the registers and written the configuration.
C26_OverridesNeedInit ==
    /\ ~asic_start =>
           \A bias_cfg \in Overrides, dac_cfg \in Overrides :
               \A o \in update_asic_config_call(bias_cfg, dac_cfg) :
                   /\ o.raised = "RuntimeError"
                   /\ o.cfg = asic_config
                   /\ o.written = <<>>
    /\ asic_start /\ Loaded =>
           \A dac_cfg \in Overrides \ {<<>>} :
               KnownKeys(Get(asic_config, "idacs"), dac_cfg) =>
                   \A o \in update_asic_config_call(<<>>, dac_cfg) :
                       /\ o.raised = "none"
                       /\ o.cfg = Put(asic_config, "idacs",
                                      Overwritten(Get(asic_config, "idacs"), dac_cfg))
                       /\ o.written = <<asic_vector(o.cfg, FALSE)>>

\* C27 as claimed, of astropix2: for every pixel of the geometry get_pixel
\* returns True on the map enable_pixel leaves, False on the map
\* disable_pixel leaves, and False on the map reset_recconfig leaves.
C27_GetPixelReadsMask ==
    Loaded =>
        \A col \in 0 .. num_cols - 1, row \in 0 .. num_rows - 1 :
            /\ \A o \in astropix2_enable_pixel_call(col, row, "False") :
                   o.raised = "none" =>
                       astropix2_get_pixel_call(num_rows, col, row)
                           = [raised |-> "none", returned |-> "True"]
            /\ \A o \in astropix2_disable_pixel_call(col, row, "False") :
                   o.raised = "none" =>
                       astropix2_get_pixel_call(num_rows, col, row)
                           = [raised |-> "none", returned |-> "False"]
            /\ \A o \in astropix2_reset_recconfig_call("default") :
                   o.raised = "none" =>
                       astropix2_get_pixel_call(num_rows, col, row)
                           = [raised |-> "none", returned |-> "False"]

----------------------------------------------------------------------------
(* The scan as a partition of the buffer *)

\* the frame starts the scan has passed
StartsTaken ==
    SelectSeq(frame_starts(readout, 0, bitorder), LAMBDA st : st < pos)

\* the byte positions (from 0) of the frame that starts at st
FramePositions(st) ==
    st .. (IF st + 5 <= Len(readout) THEN st + 4 ELSE Len(readout) - 1)

\* the byte positions the scan has passed
Passed_positions ==
    0 .. (IF pos <= Len(readout) THEN pos - 1 ELSE Len(readout) - 1)

\* frames taken so far start at increasing positions, no two share a byte,
\* each holds the bytes of its positions, and every position passed is in
\* exactly one of them or is a filler byte that was skipped
Partitioned ==
    LET S == StartsTaken
    IN  /\ Len(hitlist) = Len(S)
        /\ \A k \in 1 .. Len(S) - 1 : S[k] < S[k + 1]
        /\ \A k \in DOMAIN S, l \in DOMAIN S :
               k # l => FramePositions(S[k]) \cap FramePositions(S[l]) = {}
        /\ \A k \in DOMAIN S :
               /\ k <= Len(hitlist)
               /\ Len(hitlist[k]) = Cardinality(FramePositions(S[k]))
               /\ \A j \in DOMAIN hitlist[k] :
                      hitlist[k][j] = IF bitorder THEN RevByte(readout[S[k] + j])
                                      ELSE readout[S[k] + j]
        /\ \A p \in Passed_positions :
               \/ \E k \in DOMAIN S : p \in FramePositions(S[k])
               \/ readout[p + 1] \in (IF bitorder THEN {188, 255} ELSE {61, 255})
        /\ UNION {FramePositions(S[k]) : k \in DOMAIN S} \subseteq Passed_positions

\* C28: the scan terminates, as every pass of the loop is made with the
\* scan index inside the buffer, leaves the index strictly greater, and at
\* most four bytes past the end of the buffer; and before and after every
\* step the frames taken start at increasing positions, share no byte, and
\* together with the filler bytes skipped make up every position passed.
C28_ScanPartitions ==
    [][/\ pos' # pos =>
              /\ pos < Len(readout)
              /\ pos' > pos
              /\ pos' <= Len(readout) + 4
       /\ Partitioned
       /\ Partitioned']_vars

\* the scan of <filler> <frame> <filler> <frame holding filler values> has
\* ended with two frames
C28_Witness ==
    /\ Len(sent) = 4
    /\ Len(sent[1]) = 1 /\ Len(sent[2]) = 5 /\ Len(sent[3]) = 1
    /\ sent[4] = <<16, 188, 255, 64, 12>>
    /\ IsFiller(readout, 0, bitorder) /\ IsFiller(readout, 6, bitorder)
    /\ ~IsFiller(readout, 1, bitorder)
    /\ pos = Len(readout)
    /\ Len(hitlist) = 2

----------------------------------------------------------------------------
(* The caller's buffer *)

----------------------------------------------------------------------------
(* The vector of a telescope *)

\* the segments of the chips taken in the order `order`, one after another
RECURSIVE Segments(_, _, _)
Segments(segment, order, j) ==
    IF j > Len(order) THEN <<>>
    ELSE segment[order[j]] \o Segments(segment, order, j + 1)

\* bits is, in some order of the chips, the concatenation of one segment
\* per chip
ConcatenationOf(bits, segment) ==
    \E f \in Permutations(1 .. num_chips) :
        bits = Segments(segment, [j \in 1 .. num_chips |-> f[j]], 1)

\* C30 as claimed: with msbfirst false the vector of a telescope is the
\* concatenation of one segment per chip, each segment being the reversed
\* serialization the chip's configuration yields in single-chip mode; in
\* modules.mightypix1_asic the same holds of both vectors.
C30_TelescopeSegments ==
    num_chips > 1 =>
        /\ ConcatenationOf(telescope_vector(asic_config, num_chips, FALSE),
               [k \in 1 .. num_chips |->
                    Reverse(ConfigBits(Get(asic_config, ConfigKey(k - 1))))])
        /\ \A receiver \in BOOLEAN :
               ConcatenationOf(
                   mightypix1_telescope_vector(asic_config, num_chips, FALSE,
                                               ~receiver, receiver),
                   [k \in 1 .. num_chips |->
                        Reverse(mightypix1_bits(Get(asic_config, ConfigKey(k - 1)),
                                                receiver))])
====
